---- MODULE Spec2Model ----
(***************************************************************************)
(* flags_usage (src/mod.ts, the module that exports formatUsage, logUsage, *)
(* parseFlags and processFlags): usage text for Deno's std/flags and the   *)
(* parse-then-decide workflow around it.                                   *)
(*                                                                         *)
(* Strings are sequences of one-character strings, so that lengths,        *)
(* padding, prefixes and concatenation are computed as the code computes   *)
(* them.  A JavaScript object is a sequence of [k, v] entries in insertion *)
(* order (the order Object.keys gives for the non-numeric keys used here). *)
(* An optional property is a sequence of length 0 (undefined) or 1.  A     *)
(* value read through the prototype chain (obj[key] where key is not an    *)
(* own key but a member of Object.prototype) is a sequence of length 2:    *)
(* what typeof gives for it and the text `${value}` gives for it.          *)
(***************************************************************************)
EXTENDS Integers, Sequences, FiniteSets, TLC

(* ------------------------------------------------------------------- *)
(* Strings and JavaScript values                                        *)
(* ------------------------------------------------------------------- *)

None == <<>>
Some(x) == <<x>>
IsSome(opt) == opt # <<>>
OrElse(opt, d) == IF opt = <<>> THEN d ELSE opt[1]

sHelp == <<"h", "e", "l", "p">>
sH == <<"h">>
sQuestion == <<"?">>
sOptionsHeader == <<"O", "p", "t", "i", "o", "n", "s", ":", "\n">>
sDefaultOpen == <<" ", "(", "d", "e", "f", "a", "u", "l", "t", ":", " ">>
sDefaultOnly == <<"D", "e", "f", "a", "u", "l", "t", ":", " ">>
sHelpDescription == <<"D", "i", "s", "p", "l", "a", "y", " ", "u", "s", "a", "g", "e", " ", "i", "n", "f", "o", "r", "m", "a", "t", "i", "o", "n">>
sUnknownArguments == <<"U", "n", "k", "n", "o", "w", "n", " ", "a", "r", "g", "u", "m", "e", "n", "t", "s", ":", " ">>

(* A JavaScript value: t is what typeof gives, except "array" (an object   *)
(* for which Array.isArray holds) and "null" (typeof null is "object").    *)
JStr(s) == [t |-> "string", s |-> s, n |-> 0, b |-> FALSE, a |-> <<>>]
JNum(n) == [t |-> "number", s |-> <<>>, n |-> n, b |-> FALSE, a |-> <<>>]
JBool(b) == [t |-> "boolean", s |-> <<>>, n |-> 0, b |-> b, a |-> <<>>]
JArr(a) == [t |-> "array", s |-> <<>>, n |-> 0, b |-> FALSE, a |-> a]
JUndefined == [t |-> "undefined", s |-> <<>>, n |-> 0, b |-> FALSE, a |-> <<>>]
JNull == [t |-> "null", s |-> <<>>, n |-> 0, b |-> FALSE, a |-> <<>>]
(* a function, and the object Object.prototype; s is the text of `${value}` *)
JFunction(text) == [t |-> "function", s |-> text, n |-> 0, b |-> FALSE, a |-> <<>>]
JObject(text) == [t |-> "object", s |-> text, n |-> 0, b |-> FALSE, a |-> <<>>]

(* typeof(value) *)
TypeOf(v) == IF v.t \in {"array", "null"} THEN "object" ELSE v.t

(* ToBoolean(value): what `if (value)` and `value ? x : y` test *)
Truthy(v) ==
    CASE v.t = "string" -> v.s # <<>>
      [] v.t = "number" -> v.n # 0
      [] v.t = "boolean" -> v.b
      [] v.t \in {"array", "function", "object"} -> TRUE
      [] OTHER -> FALSE

(* a value that is not of the type its place declares: a function, the   *)
(* prototype object, a number or a string where an array is declared      *)
Foreign(type, text) == <<type, text>>
IsForeign(slot) == Len(slot) = 2

(* a string-valued optional property used as a condition; a function and *)
(* an object are truthy                                                   *)
TruthyStr(opt) == IsForeign(opt) \/ (Len(opt) = 1 /\ opt[1] # <<>>)

(* `${value}` of a string-valued property that is not undefined *)
Text(slot) == IF IsForeign(slot) THEN slot[2] ELSE slot[1]

RECURSIVE Digits(_)
Digits(n) ==
    IF n < 10
    THEN <<SubSeq(<<"0", "1", "2", "3", "4", "5", "6", "7", "8", "9">>, n + 1, n + 1)[1]>>
    ELSE Digits(n \div 10) \o Digits(n % 10)

(* `${value}` for an integer number *)
NumberToString(n) == IF n < 0 THEN <<"-">> \o Digits(0 - n) ELSE Digits(n)

RECURSIVE Fold(_, _, _)
Fold(Op(_, _), acc, seq) ==
    IF seq = <<>> THEN acc ELSE Fold(Op, Op(acc, Head(seq)), Tail(seq))

Map(Op(_), seq) == [i \in 1..Len(seq) |-> Op(seq[i])]

Contains(seq, x) == \E i \in 1..Len(seq) : seq[i] = x

(* Set.prototype.add / delete on an insertion-ordered Set *)
SetAdd(seq, x) == IF Contains(seq, x) THEN seq ELSE Append(seq, x)
SetDelete(seq, x) == SelectSeq(seq, LAMBDA y : y # x)

(* The members of Object.prototype, which every plain object inherits *)
sConstructor == <<"c", "o", "n", "s", "t", "r", "u", "c", "t", "o", "r">>
sProto == <<"_", "_", "p", "r", "o", "t", "o", "_", "_">>
sToString == <<"t", "o", "S", "t", "r", "i", "n", "g">>
sValueOf == <<"v", "a", "l", "u", "e", "O", "f">>
sHasOwnProperty == <<"h", "a", "s", "O", "w", "n", "P", "r", "o", "p", "e", "r", "t", "y">>
sIsPrototypeOf == <<"i", "s", "P", "r", "o", "t", "o", "t", "y", "p", "e", "O", "f">>
sPropertyIsEnumerable == <<"p", "r", "o", "p", "e", "r", "t", "y", "I", "s", "E", "n", "u", "m", "e", "r", "a", "b", "l", "e">>
sToLocaleString == <<"t", "o", "L", "o", "c", "a", "l", "e", "S", "t", "r", "i", "n", "g">>
sDefineGetter == <<"_", "_", "d", "e", "f", "i", "n", "e", "G", "e", "t", "t", "e", "r", "_", "_">>
sDefineSetter == <<"_", "_", "d", "e", "f", "i", "n", "e", "S", "e", "t", "t", "e", "r", "_", "_">>
sLookupGetter == <<"_", "_", "l", "o", "o", "k", "u", "p", "G", "e", "t", "t", "e", "r", "_", "_">>
sLookupSetter == <<"_", "_", "l", "o", "o", "k", "u", "p", "S", "e", "t", "t", "e", "r", "_", "_">>
sLength == <<"l", "e", "n", "g", "t", "h">>
sObjectObject == <<"[", "o", "b", "j", "e", "c", "t", " ", "O", "b", "j", "e", "c", "t", "]">>
ObjectPrototypeMembers ==
    {sConstructor, sProto, sToString, sValueOf,
     sHasOwnProperty, sIsPrototypeOf, sPropertyIsEnumerable, sToLocaleString,
     sDefineGetter, sDefineSetter, sLookupGetter, sLookupSetter}

(* `${f}` of a built-in function named name *)
FunctionText(name) ==
    <<"f", "u", "n", "c", "t", "i", "o", "n", " ">> \o name
        \o <<"(", ")", " ", "{", " ", "[", "n", "a", "t", "i", "v", "e", " ", "c", "o", "d", "e", "]", " ", "}">>

(* obj[key] where key is not an own key of the plain object obj: the member *)
(* of Object.prototype (the prototype itself for __proto__), or undefined   *)
Inherited(k) ==
    IF k = sProto THEN Foreign("object", sObjectObject)
    ELSE IF k = sConstructor THEN Foreign("function", FunctionText(<<"O", "b", "j", "e", "c", "t">>))
    ELSE IF k \in ObjectPrototypeMembers THEN Foreign("function", FunctionText(k))
    ELSE None

(* Own properties of an insertion-ordered object (what Object.keys and the *)
(* spread see)                                                             *)
OwnHas(obj, k) == \E i \in 1..Len(obj) : obj[i].k = k
Get(obj, k) == LET i == CHOOSE i \in 1..Len(obj) : obj[i].k = k IN obj[i].v
OwnLookup(obj, k) == IF OwnHas(obj, k) THEN Some(Get(obj, k)) ELSE None
Keys(obj) == [i \in 1..Len(obj) |-> obj[i].k]

(* obj[k] !== undefined and obj[k], on a plain object: the own property, *)
(* else what the prototype chain gives                                    *)
Has(obj, k) == OwnHas(obj, k) \/ k \in ObjectPrototypeMembers
Lookup(obj, k) == IF OwnHas(obj, k) THEN Some(Get(obj, k)) ELSE Inherited(k)

(* the JavaScript value of a property read *)
AsValue(slot) ==
    IF slot = None THEN JUndefined
    ELSE IF IsForeign(slot)
         THEN (IF slot[1] = "function" THEN JFunction(slot[2]) ELSE JObject(slot[2]))
         ELSE slot[1]

(* obj[k] = v on a plain object: an own key is updated in place, a new key *)
(* comes last, and __proto__ that is not an own key is the prototype's     *)
(* setter, which creates no key                                            *)
Put(obj, k, v) ==
    IF OwnHas(obj, k)
    THEN [i \in 1..Len(obj) |-> IF obj[i].k = k THEN [k |-> k, v |-> v] ELSE obj[i]]
    ELSE IF k = sProto THEN obj
    ELSE Append(obj, [k |-> k, v |-> v])

(* A string-or-array option value (alias values, boolean, string) *)
OneName(s) == [t |-> "string", s |-> s, a |-> <<>>]
NameList(a) == [t |-> "array", s |-> <<>>, a |-> a]

(* Array.isArray(value) ? value : [value] *)
AsArray(v) == IF v.t = "array" THEN v.a ELSE <<v.s>>

(* Array.isArray(x) ? x : ((typeof(x) === "string") ? [x] : []) *)
AsNameList(opt) == IF opt = <<>> THEN <<>> ELSE AsArray(opt[1])

(* ------------------------------------------------------------------- *)
(* addHelpFlagIfNeeded                                                  *)
(* ------------------------------------------------------------------- *)

(* options?.description?.help as a condition *)
HasHelpDescription(options) ==
    /\ IsSome(options.description)
    /\ TruthyStr(Lookup(options.description[1], sHelp))

(* TRUE when addHelpFlagIfNeeded returns its argument itself (the same    *)
(* object), FALSE when it builds a new object                              *)
ReturnsSameObject(options) == HasHelpDescription(options)

(* addHelpFlagIfNeeded with the spread after the help entry: *)
(* alias: { help: ["h", "?"], ...(alias ?? {}) }             *)
addHelpFlagKeepingCallerAlias(options) ==
    IF HasHelpDescription(options)
    THEN options
    ELSE [options EXCEPT
            !.alias = Some(IF OwnHas(OrElse(options.alias, <<>>), sHelp)
                           THEN options.alias[1]
                           ELSE Put(OrElse(options.alias, <<>>), sHelp,
                                    NameList(<<sH, sQuestion>>))),
            !.description = Some(Put(OrElse(options.description, <<>>), sHelp,
                                     sHelpDescription))]

(* the value of the object addHelpFlagIfNeeded returns *)
addHelpFlagIfNeeded(options) ==
    IF HasHelpDescription(options)
    THEN options
    ELSE [options EXCEPT
            !.alias = Some(Put(OrElse(options.alias, <<>>), sHelp,
                               NameList(<<sH, sQuestion>>))),
            !.description = Some(Put(OrElse(options.description, <<>>), sHelp,
                                     sHelpDescription))]

(* ------------------------------------------------------------------- *)
(* convertToFlagInfos                                                   *)
(* ------------------------------------------------------------------- *)

(* Normalize aliases to arrays: the own keys of flagToAliases *)
FlagToAliases(o) ==
    LET alias == OrElse(o.alias, <<>>)
        Normalized(m, e) == Put(m, e.k, AsArray(e.v))
    IN Fold(Normalized, <<>>, alias)

(* the prototype of flagToAliases: Object.prototype (None), or the array  *)
(* that flagToAliases["__proto__"] = [...] made its prototype              *)
FlagToAliasesPrototype(o) ==
    LET alias == OrElse(o.alias, <<>>)
    IN IF OwnHas(alias, sProto) THEN Some(AsArray(Get(alias, sProto))) ELSE None

(* The methods of Array.prototype (ECMAScript 2023), which an object whose *)
(* prototype is an array inherits before those of Object.prototype         *)
sMap == <<"m", "a", "p">>
ArrayPrototypeMembers ==
    {sMap,
     <<"a", "t">>,
     <<"c", "o", "n", "c", "a", "t">>,
     <<"c", "o", "p", "y", "W", "i", "t", "h", "i", "n">>,
     <<"e", "n", "t", "r", "i", "e", "s">>,
     <<"e", "v", "e", "r", "y">>,
     <<"f", "i", "l", "l">>,
     <<"f", "i", "l", "t", "e", "r">>,
     <<"f", "i", "n", "d">>,
     <<"f", "i", "n", "d", "I", "n", "d", "e", "x">>,
     <<"f", "i", "n", "d", "L", "a", "s", "t">>,
     <<"f", "i", "n", "d", "L", "a", "s", "t", "I", "n", "d", "e", "x">>,
     <<"f", "l", "a", "t">>,
     <<"f", "l", "a", "t", "M", "a", "p">>,
     <<"f", "o", "r", "E", "a", "c", "h">>,
     <<"i", "n", "c", "l", "u", "d", "e", "s">>,
     <<"i", "n", "d", "e", "x", "O", "f">>,
     <<"j", "o", "i", "n">>,
     <<"k", "e", "y", "s">>,
     <<"l", "a", "s", "t", "I", "n", "d", "e", "x", "O", "f">>,
     <<"p", "o", "p">>,
     <<"p", "u", "s", "h">>,
     <<"r", "e", "d", "u", "c", "e">>,
     <<"r", "e", "d", "u", "c", "e", "R", "i", "g", "h", "t">>,
     <<"r", "e", "v", "e", "r", "s", "e">>,
     <<"s", "h", "i", "f", "t">>,
     <<"s", "l", "i", "c", "e">>,
     <<"s", "o", "m", "e">>,
     <<"s", "o", "r", "t">>,
     <<"s", "p", "l", "i", "c", "e">>,
     <<"t", "o", "L", "o", "c", "a", "l", "e", "S", "t", "r", "i", "n", "g">>,
     <<"t", "o", "R", "e", "v", "e", "r", "s", "e", "d">>,
     <<"t", "o", "S", "o", "r", "t", "e", "d">>,
     <<"t", "o", "S", "p", "l", "i", "c", "e", "d">>,
     <<"t", "o", "S", "t", "r", "i", "n", "g">>,
     <<"u", "n", "s", "h", "i", "f", "t">>,
     <<"v", "a", "l", "u", "e", "s">>,
     <<"w", "i", "t", "h">>}

(* flagToAliases[flag]: an own key, else through the prototype; an array   *)
(* prototype gives itself for __proto__, its length, its elements for the  *)
(* indices, Array for constructor and the methods of Array.prototype       *)
FlagAliases(o, flag) ==
    LET own == FlagToAliases(o)
        proto == FlagToAliasesPrototype(o)
    IN IF OwnHas(own, flag) THEN Some(Get(own, flag))
       ELSE IF proto = None THEN Inherited(flag)
       ELSE IF flag = sProto THEN Some(proto[1])
       ELSE IF flag = sLength THEN Foreign("number", NumberToString(Len(proto[1])))
       ELSE IF \E i \in 1..Len(proto[1]) : NumberToString(i - 1) = flag
            THEN Foreign("string",
                         proto[1][CHOOSE i \in 1..Len(proto[1]) : NumberToString(i - 1) = flag])
       ELSE IF flag = sConstructor THEN Foreign("function", FunctionText(<<"A", "r", "r", "a", "y">>))
       ELSE IF flag \in ArrayPrototypeMembers THEN Foreign("function", FunctionText(flag))
       ELSE Inherited(flag)

(* Enumerate all flags, put help last, remove any aliases *)
FlagSet(o) ==
    LET descriptions == OrElse(o.description, <<>>)
        flagArguments == OrElse(o.argument, <<>>)
        defaults == OrElse(o.default, <<>>)
        s1 == Fold(SetAdd, <<>>, Keys(descriptions))
        s2 == Fold(SetAdd, s1, AsNameList(o.boolean))
        s3 == Fold(SetAdd, s2, AsNameList(o.string))
        s4 == Fold(SetAdd, s3, Keys(flagArguments))
        s5 == Fold(SetAdd, s4, Keys(defaults))
        s6 == SetAdd(SetDelete(s5, sHelp), sHelp)
        DeleteAliases(set, entry) == Fold(SetDelete, set, entry.v)
    IN Fold(DeleteAliases, s6, FlagToAliases(o))

(* Determine flag argument types: defaults, then booleans, then strings *)
FlagArgumentTypes(o) ==
    LET defaults == OrElse(o.default, <<>>)
        FromDefault(m, e) == Put(m, e.k, TypeOf(e.v))
        AsBoolean(m, flag) == Put(m, flag, "boolean")
        AsString(m, flag) == Put(m, flag, "string")
        t1 == Fold(FromDefault, <<>>, defaults)
        t2 == Fold(AsBoolean, t1, AsNameList(o.boolean))
    IN Fold(AsString, t2, AsNameList(o.string))

(* Format flag argument names: flagArgumentNames[flag] for a flag of the set *)
FlagArgumentName(o, flag) ==
    LET explicit == Lookup(OrElse(o.argument, <<>>), flag)
        type == Lookup(FlagArgumentTypes(o), flag)
        str == IF explicit = None /\ type # None
               THEN CASE IsForeign(type) -> Some(<<"a", "r", "g">>)
                      [] type[1] = "string" -> Some(<<"s", "t", "r">>)
                      [] type[1] = "number" -> Some(<<"n", "u", "m">>)
                      [] type[1] = "boolean" -> None
                      [] OTHER -> Some(<<"a", "r", "g">>)
               ELSE explicit
        flagArgumentNames == IF TruthyStr(str) THEN Put(<<>>, flag, str) ELSE <<>>
    IN IF OwnHas(flagArgumentNames, flag) THEN Get(flagArgumentNames, flag)
       ELSE Inherited(flag)

FlagInfoOf(o, flagName) ==
    [flag |-> flagName,
     aliases |-> FlagAliases(o, flagName),
     type |-> Lookup(FlagArgumentTypes(o), flagName),
     description |-> Lookup(OrElse(o.description, <<>>), flagName),
     argumentName |-> FlagArgumentName(o, flagName),
     default |-> AsValue(Lookup(OrElse(o.default, <<>>), flagName))]

convertToFlagInfos(o) ==
    LET flagSet == FlagSet(o)
    IN [i \in 1..Len(flagSet) |-> FlagInfoOf(o, flagSet[i])]

(* ------------------------------------------------------------------- *)
(* formatUsage                                                          *)
(* ------------------------------------------------------------------- *)

(* the name typeof gives, as text *)
TypeName(v) ==
    CASE TypeOf(v) = "object" -> <<"o", "b", "j", "e", "c", "t">>
      [] TypeOf(v) = "function" -> <<"f", "u", "n", "c", "t", "i", "o", "n">>

(* Format defaults: flagDefaultStrings[info.flag] *)
FlagDefaultString(info) ==
    LET value == info.default
        str == CASE TypeOf(value) = "string" -> Some(<<"\"">> \o value.s \o <<"\"">>)
                 [] TypeOf(value) = "number" -> Some(NumberToString(value.n))
                 [] TypeOf(value) = "boolean" ->
                        Some(IF value.b THEN <<"t", "r", "u", "e">>
                                        ELSE <<"f", "a", "l", "s", "e">>)
                 [] TypeOf(value) = "undefined" -> None
                 [] OTHER -> Some(TypeName(value))
        flagDefaultStrings == IF TruthyStr(str) THEN Put(<<>>, info.flag, str[1]) ELSE <<>>
    IN Lookup(flagDefaultStrings, info.flag)

DescriptionString(info) ==
    LET fds == FlagDefaultString(info)
    IN IF TruthyStr(info.description)
       THEN Text(info.description)
            \o (IF TruthyStr(fds) THEN sDefaultOpen \o Text(fds) \o <<")">> ELSE <<>>)
       ELSE (IF TruthyStr(fds) THEN sDefaultOnly \o Text(fds) ELSE <<>>)

(* Array.prototype.sort((a, b) => a.length - b.length): a stable sort *)
RECURSIVE InsertByLength(_, _)
InsertByLength(sorted, x) ==
    IF sorted = <<>> THEN <<x>>
    ELSE IF Len(Head(sorted)) <= Len(x)
         THEN <<Head(sorted)>> \o InsertByLength(Tail(sorted), x)
         ELSE <<x>> \o sorted
SortByLength(seq) == Fold(InsertByLength, <<>>, seq)

(* `-${f.length > 1 ? "-" : ""}${f}` *)
Dashed(f) == <<"-">> \o (IF Len(f) > 1 THEN <<"-">> ELSE <<>>) \o f

RECURSIVE Join(_, _)
Join(seq, sep) ==
    IF seq = <<>> THEN <<>>
    ELSE IF Len(seq) = 1 THEN seq[1]
    ELSE seq[1] \o sep \o Join(Tail(seq), sep)

(* what formatUsage ends with when the spread of info.aliases throws *)
TypeErrorNotIterable == <<"TypeError: (info.aliases ?? []) is not iterable">>

(* info.aliases ?? [] is iterable: undefined, an array or a string *)
AliasesIterable(info) == ~IsForeign(info.aliases) \/ info.aliases[1] = "string"

(* [...(info.aliases ?? [])] *)
SpreadAliases(info) ==
    IF info.aliases = None THEN <<>>
    ELSE IF IsForeign(info.aliases)
         THEN [i \in 1..Len(info.aliases[2]) |-> <<info.aliases[2][i]>>]
         ELSE info.aliases[1]

(* the flag string of one flag, or TypeErrorNotIterable when building it throws *)
FlagString(info) ==
    IF ~AliasesIterable(info) THEN TypeErrorNotIterable
    ELSE Join(Map(Dashed, SortByLength(<<info.flag>> \o SpreadAliases(info))),
              <<",", " ">>)
         \o (IF TruthyStr(info.argumentName)
             THEN <<" ", "<">> \o Text(info.argumentName) \o <<">">>
             ELSE <<>>)

(* Create a display string for each flag *)
FlagStrings(flagInfos) ==
    [i \in 1..Len(flagInfos) |->
        [descriptionString |-> DescriptionString(flagInfos[i]),
         flagString |-> FlagString(flagInfos[i])]]

Max(a, b) == IF a >= b THEN a ELSE b

FlagStringMaxLength(flagStrings) ==
    LET Longer(max, str) == Max(max, Len(str.flagString))
    IN Fold(Longer, 0, flagStrings)

Spaces(n) == [i \in 1..n |-> " "]

(* one line of the options block *)
UsageLine(f, maxLength) ==
    <<" ", " ">> \o f.flagString \o Spaces(maxLength - Len(f.flagString))
    \o <<" ", " ">> \o f.descriptionString

(* the text formatUsage returns for its flag infos, or TypeErrorNotIterable *)
(* when the map over them throws                                           *)
FormatFlagInfos(flagInfos) ==
    LET flagStrings == FlagStrings(flagInfos)
        maxLength == FlagStringMaxLength(flagStrings)
        Line(f) == UsageLine(f, maxLength)
    IN IF \E i \in 1..Len(flagStrings) : flagStrings[i].flagString = TypeErrorNotIterable
       THEN TypeErrorNotIterable
       ELSE sOptionsHeader \o Join(Map(Line, flagStrings), <<"\n">>)

formatUsage(options) ==
    FormatFlagInfos(convertToFlagInfos(addHelpFlagIfNeeded(options)))

(* ------------------------------------------------------------------- *)
(* parse (std/flags, imported at the top of mod.ts): the tokenizer that  *)
(* parseFlags and processFlags delegate to.  Modelled for the token      *)
(* forms of Tokens below: "--key=value", "--no-key", "--key", "-k" (one  *)
(* letter), a bare word and the "--" separator; keys hold no ".".        *)
(* ------------------------------------------------------------------- *)

StartsWith(s, prefix) ==
    Len(s) >= Len(prefix) /\ SubSeq(s, 1, Len(prefix)) = prefix

IndexOf(s, x) ==
    IF Contains(s, x) THEN CHOOSE i \in 1..Len(s) : s[i] = x /\ ~Contains(SubSeq(s, 1, i - 1), x)
    ELSE 0

Drop(s, n) == SubSeq(s, n + 1, Len(s))

IsDigit(c) == c \in {"0", "1", "2", "3", "4", "5", "6", "7", "8", "9"}
DigitValue(c) == CHOOSE d \in 0..9 : Digits(d) = <<c>>

(* isNumber(x), for numbers and for strings of decimal digits *)
IsNumber(v) ==
    \/ v.t = "number"
    \/ v.t = "string" /\ v.s # <<>> /\ \A i \in 1..Len(v.s) : IsDigit(v.s[i])

(* Number(x) for a string of decimal digits *)
ToNumber(s) ==
    LET Shift(acc, c) == acc * 10 + DigitValue(c)
    IN Fold(Shift, 0, s)

sTrue == <<"t", "r", "u", "e">>
sFalse == <<"f", "a", "l", "s", "e">>
sDashDash == <<"-", "-">>
sUnderscore == <<"_">>

(* flags.bools: booleanArgs.filter(Boolean) *)
ParseBools(config) == SelectSeq(AsNameList(config.boolean), LAMBDA key : key # <<>>)

(* aliases: every alias entry, and the reverse entry of each of its names *)
ParseAliases(config) ==
    LET alias == OrElse(config.alias, <<>>)
        Others(key, names, al) == <<key>> \o SelectSeq(names, LAMBDA y : al # y)
        AddEntry(aliases, e) ==
            LET names == AsArray(e.v)
                Reverse(acc, al) == Put(acc, al, Others(e.k, names, al))
            IN Fold(Reverse, Put(aliases, e.k, names), names)
    IN Fold(AddEntry, <<>>, alias)

(* flags.strings: stringArgs.filter(Boolean), each with its aliases *)
ParseStrings(config) ==
    LET aliases == ParseAliases(config)
        AddKey(strings, key) ==
            Fold(SetAdd, SetAdd(strings, key), OrElse(OwnLookup(aliases, key), <<>>))
    IN Fold(AddKey, <<>>, SelectSeq(AsNameList(config.string), LAMBDA key : key # <<>>))

argDefined(config, key) ==
    \/ Contains(ParseBools(config), key)
    \/ Contains(ParseStrings(config), key)
    \/ OwnHas(ParseAliases(config), key)

aliasIsBoolean(config, key) ==
    \E i \in 1..Len(Get(ParseAliases(config), key)) :
        Contains(ParseBools(config), Get(ParseAliases(config), key)[i])

(* setKey(argv, [key], value) *)
setKey(config, argv, key, value) ==
    LET cur == OrElse(OwnLookup(argv, key), JUndefined)
    IN IF cur.t = "undefined" \/ Contains(ParseBools(config), key) \/ cur.t = "boolean"
       THEN Put(argv, key, value)
       ELSE IF cur.t = "array"
            THEN Put(argv, key, JArr(Append(cur.a, value)))
            ELSE Put(argv, key, JArr(<<cur, value>>))

(* the part of setArg after the unknown check: store under key and aliases *)
setArgStore(config, argv, key, val) ==
    LET value == IF ~Contains(ParseStrings(config), key) /\ IsNumber(val)
                 THEN (IF val.t = "number" THEN val ELSE JNum(ToNumber(val.s)))
                 ELSE val
        Store(acc, x) == setKey(config, acc, x, value)
    IN Fold(Store, setKey(config, argv, key, value),
            OrElse(OwnLookup(ParseAliases(config), key), <<>>))

(* argv after the defaults of the boolean flags are stored *)
InitialArgv(config) ==
    LET defaults == OrElse(config.default, <<>>)
        StoreBool(acc, key) ==
            LET d == OrElse(OwnLookup(defaults, key), JUndefined)
            IN setArgStore(config, acc, key, IF d.t = "undefined" THEN JBool(FALSE) ELSE d)
    IN Fold(StoreBool, <<>>, ParseBools(config))

(* all args after "--" are not parsed *)
ArgsBeforeDashDash(args) ==
    IF Contains(args, sDashDash) THEN SubSeq(args, 1, IndexOf(args, sDashDash) - 1) ELSE args
ArgsAfterDashDash(args) ==
    IF Contains(args, sDashDash) THEN Drop(args, IndexOf(args, sDashDash)) ELSE <<>>

(* which branch of the loop body takes the token *)
TokenKind(arg) ==
    IF StartsWith(arg, sDashDash) /\ (\E i \in 4..Len(arg) : arg[i] = "=") THEN "eq"
    ELSE IF StartsWith(arg, <<"-", "-", "n", "o", "-">>) /\ Len(arg) > 5 THEN "no"
    ELSE IF StartsWith(arg, sDashDash) /\ Len(arg) > 2 THEN "long"
    ELSE IF Len(arg) > 1 /\ arg[1] = "-" /\ arg[2] # "-" THEN "short"
    ELSE "bare"

(* the token forms the model covers: no "-abc" letter groups, no "--=", no "." in a key *)
IsModelledToken(arg) ==
    /\ arg # <<>>
    /\ ~Contains(arg, ".")
    /\ TokenKind(arg) = "short" => Len(arg) = 2
    /\ TokenKind(arg) = "eq" => IndexOf(arg, "=") >= 4

(* What the loop body does with args[i]: the key and value it hands to    *)
(* setArg (flag TRUE) or the bare word it pushes (flag FALSE), and how    *)
(* many following tokens it consumes.                                     *)
TokenPlan(config, args, i) ==
    LET arg == args[i]
        kind == TokenKind(arg)
        hasNext == i < Len(args)
        next == IF hasNext THEN args[i + 1] ELSE <<>>
        isBool(key) == Contains(ParseBools(config), key)
        isString(key) == Contains(ParseStrings(config), key)
        notBoolAlias(key) == OwnHas(ParseAliases(config), key) => ~aliasIsBoolean(config, key)
        bare(key) == IF isString(key) THEN JStr(<<>>) ELSE JBool(TRUE)
        plan(key, val, used) == [flag |-> TRUE, arg |-> arg, key |-> key, val |-> val, used |-> used]
    IN CASE kind = "eq" ->
              LET e == IndexOf(arg, "=")
                  key == SubSeq(arg, 3, e - 1)
                  value == Drop(arg, e)
              IN plan(key, IF isBool(key) THEN JBool(value # sFalse) ELSE JStr(value), 0)
         [] kind = "no" -> plan(Drop(arg, 5), JBool(FALSE), 0)
         [] kind = "long" ->
              LET key == Drop(arg, 2)
              IN IF hasNext /\ ~StartsWith(next, <<"-">>) /\ ~isBool(key) /\ notBoolAlias(key)
                 THEN plan(key, JStr(next), 1)
                 ELSE IF hasNext /\ next \in {sTrue, sFalse}
                      THEN plan(key, JBool(next = sTrue), 1)
                      ELSE plan(key, bare(key), 0)
         [] kind = "short" ->
              LET key == <<arg[Len(arg)]>>
                  flagLike == \/ (Len(next) > 1 /\ next[1] = "-" /\ next[2] # "-")
                              \/ (Len(next) > 2 /\ StartsWith(next, sDashDash) /\ next[3] # "-")
              IN IF hasNext /\ next # <<>> /\ ~flagLike /\ ~isBool(key) /\ notBoolAlias(key)
                 THEN plan(key, JStr(next), 1)
                 ELSE IF hasNext /\ next \in {sTrue, sFalse}
                      THEN plan(key, JBool(next = sTrue), 1)
                      ELSE plan(key, bare(key), 0)
         [] OTHER -> [flag |-> FALSE, arg |-> arg, key |-> <<>>, val |-> JUndefined, used |-> 0]

(* TRUE when the loop body calls the unknown function for this token *)
CallsUnknown(config, plan) == ~plan.flag \/ ~argDefined(config, plan.key)

(* argv and argv._ after the token is stored (the unknown function did not return false) *)
StoreToken(config, argv, positional, plan) ==
    IF plan.flag
    THEN [argv |-> setArgStore(config, argv, plan.key, plan.val), positional |-> positional]
    ELSE [argv |-> argv,
          positional |->
              Append(positional,
                     IF Contains(ParseStrings(config), sUnderscore) \/ ~IsNumber(JStr(plan.arg))
                     THEN JStr(plan.arg) ELSE JNum(ToNumber(plan.arg)))]

(* after the loop: defaults for the keys not set, then the tokens after "--" *)
FinishArgv(config, argv, positional, notFlags) ==
    LET defaults == OrElse(config.default, <<>>)
        aliases == ParseAliases(config)
        ApplyDefault(acc, e) ==
            IF OwnHas(acc, e.k) THEN acc
            ELSE LET Store(a, x) == setKey(config, a, x, e.v)
                 IN Fold(Store, setKey(config, acc, e.k, e.v), OrElse(OwnLookup(aliases, e.k), <<>>))
    IN [flags |-> Fold(ApplyDefault, argv, defaults),
        positional |-> positional \o Map(JStr, notFlags)]

(* ------------------------------------------------------------------- *)
(* The calls: one run is one call of formatUsage, logUsage, parseFlags   *)
(* or processFlags on a configuration the caller owns                    *)
(* ------------------------------------------------------------------- *)

VARIABLES
    op,            \* the exported function called
    args,          \* the args parameter
    heap,          \* the configuration objects; heap[1] is the caller's options object
    original,      \* the caller's options object as it was when the call began
    pc,            \* where the call is
    o,             \* processFlags' o: the reference addHelpFlagIfNeeded returned (0: not yet)
    unknownFlags,  \* processFlags' unknownFlags array
    tk,            \* parse's locals: configuration reference, args, position, argv
    plan,          \* the token parse is working on
    depth,         \* frames of the wrapper on the call stack
    inv,           \* what the current call of the unknown function has done so far
    cbCalls,       \* the calls the caller's own unknown callback received
    ret,           \* the value the unknown function returns
    out,           \* what console.log received, in order
    exitCode,      \* the argument of Deno.exit, once called
    parsedArgs,    \* processFlags' parsedArgs
    flagInfos,     \* formatUsage's flagInfos
    resultText,    \* the string formatUsage returned
    resultArgs     \* the Args parseFlags or processFlags returned

vars == <<op, args, heap, original, pc, o, unknownFlags, tk, plan, depth, inv, cbCalls,
          ret, out, exitCode, parsedArgs, flagInfos, resultText, resultArgs>>

(* bounds of the model *)
MaxArgs == 2
MaxStack == 3

sBar == <<"b", "a", "r">>
sOut == <<"o", "u", "t">>
sFoo == <<"f", "o", "o">>
sDir == <<"d", "i", "r">>

EmptyOptions ==
    [alias |-> None, description |-> None, boolean |-> None, string |-> None,
     argument |-> None, default |-> None, preamble |-> None, unknown |-> "none"]

Entry(k, v) == [k |-> k, v |-> v]

(* the configurations formatUsage and logUsage are called with *)
UsageDescriptions ==
    {None,
     Some(<<Entry(sBar, <<"B">>)>>),
     Some(<<Entry(sBar, <<>>)>>),
     Some(<<Entry(sHelp, <<"H">>)>>),
     Some(<<Entry(sHelp, <<>>)>>),
     Some(<<Entry(sHelp, <<"H">>), Entry(sBar, <<"B">>)>>)}
UsageBooleans ==
    {None, Some(OneName(sBar)), Some(NameList(<<sHelp, sBar>>)),
     Some(NameList(<<sConstructor>>))}
UsageStrings == {None, Some(NameList(<<sBar>>)), Some(OneName(sOut)), Some(NameList(<<sMap>>))}
UsageAliases ==
    {None,
     Some(<<Entry(sBar, NameList(<<<<"b", "b">>, <<"b">>>>))>>),
     Some(<<Entry(sBar, OneName(sHelp))>>),
     Some(<<Entry(sHelp, OneName(<<"x">>))>>),
     Some(<<Entry(sOut, OneName(sBar))>>),
     Some(<<Entry(sProto, OneName(sBar))>>),
     Some(<<Entry(sConstructor, OneName(<<"c">>))>>)}
UsageArguments ==
    {None, Some(<<Entry(sBar, sDir)>>), Some(<<Entry(sOut, <<>>)>>),
     Some(<<Entry(sFoo, sDir), Entry(sOut, sDir)>>)}
UsageDefaults ==
    {None,
     Some(<<Entry(sBar, JStr(sOut))>>),
     Some(<<Entry(sBar, JStr(<<>>))>>),
     Some(<<Entry(sBar, JNum(0))>>),
     Some(<<Entry(sBar, JNum(-42))>>),
     Some(<<Entry(sBar, JBool(FALSE))>>),
     Some(<<Entry(sBar, JBool(TRUE))>>),
     Some(<<Entry(sBar, JNull)>>),
     Some(<<Entry(sBar, JUndefined)>>),
     Some(<<Entry(sOut, JNum(7)), Entry(sHelp, JBool(FALSE))>>)}
Preambles == {None, Some(<<"U", "s", "e">>)}

UsageOptions ==
    [alias : UsageAliases, description : UsageDescriptions, boolean : UsageBooleans,
     string : UsageStrings, argument : UsageArguments, default : UsageDefaults,
     preamble : Preambles, unknown : {"none"}]

(* the configurations parseFlags and processFlags are called with; unknown is the  *)
(* caller's callback: absent, one that returns false, one that returns undefined   *)
CallerCallbacks == {"returnsFalse", "returnsUndefined"}
ParseOptions ==
    [alias : {None, Some(<<Entry(sBar, OneName(<<"b">>))>>)},
     description : {None, Some(<<Entry(sHelp, <<"H">>)>>), Some(<<Entry(sBar, <<"B">>)>>),
                    Some(<<Entry(sConstructor, <<"C">>)>>)},
     boolean : {None, Some(OneName(sBar))},
     string : {None},
     argument : {None},
     default : {None, Some(<<Entry(sBar, JStr(sOut))>>)},
     preamble : {None},
     unknown : {"none"} \cup CallerCallbacks]

Tokens ==
    {sFoo, <<"0">>, <<"-", "-", "h", "e", "l", "p">>, <<"-", "h">>,
     <<"-", "-", "b", "a", "r">>, <<"-", "-", "n", "o", "-", "h", "e", "l", "p">>,
     <<"-", "-", "b", "a", "r", "=", "0">>, sDashDash}

ArgLists == UNION {[1..n -> Tokens] : n \in 0..MaxArgs}

NoPlan == [flag |-> FALSE, arg |-> <<>>, key |-> <<>>, val |-> JUndefined, used |-> 0]
NoParse == [p |-> 0, args |-> <<>>, notFlags |-> <<>>, i |-> 0, argv |-> <<>>,
            positional |-> <<>>, unknownFn |-> "none"]
NoArgs == [flags |-> <<>>, positional |-> <<>>]
NoCall == [recorded |-> 0, forwarded |-> 0, wrapper |-> FALSE]

Init ==
    /\ \E f \in {"formatUsage", "logUsage", "parseFlags", "processFlags"} :
        /\ op = f
        /\ IF f \in {"formatUsage", "logUsage"}
           THEN /\ args = <<>>
                /\ \E c \in UsageOptions : heap = <<c>>
           ELSE /\ args \in ArgLists
                /\ \A i \in 1..Len(args) : IsModelledToken(args[i])
                /\ \E c \in ParseOptions : heap = <<c>>
    /\ original = heap[1]
    /\ pc = "start"
    /\ o = 0
    /\ unknownFlags = <<>>
    /\ tk = NoParse
    /\ plan = NoPlan
    /\ depth = 0
    /\ inv = NoCall
    /\ cbCalls = <<>>
    /\ ret = JUndefined
    /\ out = <<>>
    /\ exitCode = None
    /\ parsedArgs = NoArgs
    /\ flagInfos = <<>>
    /\ resultText = <<>>
    /\ resultArgs = NoArgs

(* The heap and the reference after addHelpFlagIfNeeded(ref): the same    *)
(* reference when it returns its argument, a new object otherwise         *)
HeapAfterAddHelp(h, ref) ==
    IF ReturnsSameObject(h[ref]) THEN h ELSE Append(h, addHelpFlagIfNeeded(h[ref]))
RefAfterAddHelp(h, ref) ==
    IF ReturnsSameObject(h[ref]) THEN ref ELSE Len(h) + 1

(* parse(args, config) up to its loop over the tokens *)
ParseBegin(h, ref) ==
    [p |-> ref,
     args |-> ArgsBeforeDashDash(args),
     notFlags |-> ArgsAfterDashDash(args),
     i |-> 1,
     argv |-> InitialArgv(h[ref]),
     positional |-> <<>>,
     unknownFn |-> h[ref].unknown]

(* formatUsage(options): o = addHelpFlagIfNeeded(options), then the text of its flag infos *)
FormatUsageCall ==
    /\ pc = "start" /\ op = "formatUsage"
    /\ heap' = HeapAfterAddHelp(heap, 1)
    /\ o' = RefAfterAddHelp(heap, 1)
    /\ flagInfos' = convertToFlagInfos(heap'[o'])
    /\ IF FormatFlagInfos(flagInfos') = TypeErrorNotIterable
       THEN resultText' = resultText /\ pc' = "threwTypeError"
       ELSE resultText' = FormatFlagInfos(flagInfos') /\ pc' = "returned"
    /\ UNCHANGED <<op, args, original, unknownFlags, tk, plan, depth, inv, cbCalls,
                   ret, out, exitCode, parsedArgs, resultArgs>>

(* logUsage(options): console.log(formatUsage(options)); nothing is logged *)
(* when formatUsage throws                                                 *)
LogUsageCall ==
    /\ pc = "start" /\ op = "logUsage"
    /\ heap' = HeapAfterAddHelp(heap, 1)
    /\ o' = RefAfterAddHelp(heap, 1)
    /\ flagInfos' = convertToFlagInfos(heap'[o'])
    /\ IF FormatFlagInfos(flagInfos') = TypeErrorNotIterable
       THEN out' = out /\ pc' = "threwTypeError"
       ELSE out' = Append(out, FormatFlagInfos(flagInfos')) /\ pc' = "returned"
    /\ UNCHANGED <<op, args, original, unknownFlags, tk, plan, depth, inv, cbCalls,
                   ret, exitCode, parsedArgs, resultText, resultArgs>>

(* parseFlags: parse(args, addHelpFlagIfNeeded(options)) *)
ParseFlagsCall ==
    /\ pc = "start" /\ op = "parseFlags"
    /\ heap' = HeapAfterAddHelp(heap, 1)
    /\ tk' = ParseBegin(heap', RefAfterAddHelp(heap, 1))
    /\ pc' = "parse"
    /\ UNCHANGED <<op, args, original, o, unknownFlags, plan, depth, inv, cbCalls,
                   ret, out, exitCode, parsedArgs, flagInfos, resultText, resultArgs>>

(* processFlags up to the loop of parse: o, the wrapper stored in o.unknown, *)
(* and parseFlags(args, o)                                                  *)
ProcessFlagsCall ==
    /\ pc = "start" /\ op = "processFlags"
    /\ LET h1 == HeapAfterAddHelp(heap, 1)
           r == RefAfterAddHelp(heap, 1)
           h2 == [h1 EXCEPT ![r].unknown = "wrapper"]
       IN /\ o' = r
          /\ heap' = HeapAfterAddHelp(h2, r)
          /\ tk' = ParseBegin(heap', RefAfterAddHelp(h2, r))
    /\ unknownFlags' = <<>>
    /\ pc' = "parse"
    /\ UNCHANGED <<op, args, original, plan, depth, inv, cbCalls,
                   ret, out, exitCode, parsedArgs, flagInfos, resultText, resultArgs>>

(* parse's state after the token of `pl` is dealt with; stored unless the  *)
(* unknown function returned false                                         *)
AfterToken(pl, store) ==
    LET s == IF store THEN StoreToken(heap[tk.p], tk.argv, tk.positional, pl)
             ELSE [argv |-> tk.argv, positional |-> tk.positional]
    IN [tk EXCEPT !.argv = s.argv, !.positional = s.positional, !.i = tk.i + 1 + pl.used]

(* one token of parse's loop, up to its call of the unknown function if it makes one *)
ParseToken ==
    /\ pc = "parse" /\ tk.i <= Len(tk.args)
    /\ LET pl == TokenPlan(heap[tk.p], tk.args, tk.i)
       IN IF CallsUnknown(heap[tk.p], pl) /\ tk.unknownFn # "none"
          THEN /\ plan' = pl
               /\ inv' = NoCall
               /\ pc' = IF tk.unknownFn = "wrapper" THEN "wrapper" ELSE "callback"
               /\ tk' = tk
          ELSE /\ tk' = AfterToken(pl, TRUE)
               /\ UNCHANGED <<plan, inv, pc>>
    /\ UNCHANGED <<op, args, heap, original, o, unknownFlags, depth, cbCalls,
                   ret, out, exitCode, parsedArgs, flagInfos, resultText, resultArgs>>

(* the wrapper processFlags stores in o.unknown: unknownFlags.push(arg), then *)
(* options.unknown ? options.unknown(arg, key, value) : undefined, where      *)
(* options is the caller's object                                             *)
WrapperCall ==
    /\ pc = "wrapper" /\ depth < MaxStack
    /\ unknownFlags' = Append(unknownFlags, plan.arg)
    /\ depth' = depth + 1
    /\ inv' = [inv EXCEPT !.recorded = @ + 1, !.wrapper = TRUE]
    /\ IF heap[1].unknown = "none"
       THEN /\ ret' = JUndefined
            /\ pc' = "unknownReturn"
       ELSE /\ ret' = ret
            /\ pc' = IF heap[1].unknown = "wrapper" THEN "wrapper" ELSE "callback"
    /\ UNCHANGED <<op, args, heap, original, o, tk, plan, cbCalls,
                   out, exitCode, parsedArgs, flagInfos, resultText, resultArgs>>

(* the wrapper calls itself until the call stack is exhausted: RangeError *)
StackOverflow ==
    /\ pc = "wrapper" /\ depth = MaxStack
    /\ pc' = "threw"
    /\ UNCHANGED <<op, args, heap, original, o, unknownFlags, tk, plan, depth, inv, cbCalls,
                   ret, out, exitCode, parsedArgs, flagInfos, resultText, resultArgs>>

(* the caller's own unknown callback runs *)
CallbackCall ==
    /\ pc = "callback"
    /\ cbCalls' = Append(cbCalls, [arg |-> plan.arg, key |-> plan.key, val |-> plan.val])
    /\ inv' = [inv EXCEPT !.forwarded = @ + 1]
    /\ ret' = IF heap[1].unknown = "returnsFalse" THEN JBool(FALSE) ELSE JUndefined
    /\ pc' = "unknownReturn"
    /\ UNCHANGED <<op, args, heap, original, o, unknownFlags, tk, plan, depth,
                   out, exitCode, parsedArgs, flagInfos, resultText, resultArgs>>

(* the unknown function returns to parse, which skips the token on false *)
UnknownReturn ==
    /\ pc = "unknownReturn"
    /\ tk' = AfterToken(plan, ~(ret.t = "boolean" /\ ~ret.b))
    /\ depth' = 0
    /\ pc' = "parse"
    /\ UNCHANGED <<op, args, heap, original, o, unknownFlags, plan, inv, cbCalls,
                   ret, out, exitCode, parsedArgs, flagInfos, resultText, resultArgs>>

(* parse returns; parseFlags returns its result, processFlags keeps it in parsedArgs *)
ParseReturn ==
    /\ pc = "parse" /\ tk.i > Len(tk.args)
    /\ LET argv == FinishArgv(heap[tk.p], tk.argv, tk.positional, tk.notFlags)
       IN IF op = "parseFlags"
          THEN /\ resultArgs' = argv
               /\ pc' = "returned"
               /\ UNCHANGED parsedArgs
          ELSE /\ parsedArgs' = argv
               /\ pc' = "parsed"
               /\ UNCHANGED resultArgs
    /\ UNCHANGED <<op, args, heap, original, o, unknownFlags, tk, plan, depth, inv, cbCalls,
                   ret, out, exitCode, flagInfos, resultText>>

hasUnknownFlags == Len(unknownFlags) > 0

(* parsedArgs.help || hasUnknownFlags *)
StopCondition ==
    Truthy(AsValue(Lookup(parsedArgs.flags, sHelp))) \/ hasUnknownFlags

(* `Unknown arguments: ${unknownFlags.join(" ")}\n` *)
UnknownNotice == sUnknownArguments \o Join(unknownFlags, <<" ">>) \o <<"\n">>

(* Deno.exit(-1) *)
ExitStatus == -1

ProcessReturn ==
    /\ pc = "parsed" /\ ~StopCondition
    /\ resultArgs' = parsedArgs
    /\ pc' = "returned"
    /\ UNCHANGED <<op, args, heap, original, o, unknownFlags, tk, plan, depth, inv, cbCalls,
                   ret, out, exitCode, parsedArgs, flagInfos, resultText>>

LogUnknown ==
    /\ pc = "parsed" /\ StopCondition /\ hasUnknownFlags
    /\ out' = Append(out, UnknownNotice)
    /\ pc' = "usage"
    /\ UNCHANGED <<op, args, heap, original, o, unknownFlags, tk, plan, depth, inv, cbCalls,
                   ret, exitCode, parsedArgs, flagInfos, resultText, resultArgs>>

LogUsageStep ==
    /\ \/ pc = "usage"
       \/ pc = "parsed" /\ StopCondition /\ ~hasUnknownFlags
    /\ flagInfos' = convertToFlagInfos(addHelpFlagIfNeeded(heap[o]))
    /\ IF FormatFlagInfos(flagInfos') = TypeErrorNotIterable
       THEN out' = out /\ pc' = "threwTypeError"
       ELSE out' = Append(out, FormatFlagInfos(flagInfos')) /\ pc' = "exit"
    /\ UNCHANGED <<op, args, heap, original, o, unknownFlags, tk, plan, depth, inv, cbCalls,
                   ret, exitCode, parsedArgs, resultText, resultArgs>>

Exit ==
    /\ pc = "exit"
    /\ exitCode' = Some(ExitStatus)
    /\ pc' = "exited"
    /\ UNCHANGED <<op, args, heap, original, o, unknownFlags, tk, plan, depth, inv, cbCalls,
                   ret, out, parsedArgs, flagInfos, resultText, resultArgs>>

Next ==
    \/ FormatUsageCall
    \/ LogUsageCall
    \/ ParseFlagsCall
    \/ ProcessFlagsCall
    \/ ParseToken
    \/ WrapperCall
    \/ StackOverflow
    \/ CallbackCall
    \/ UnknownReturn
    \/ ParseReturn
    \/ ProcessReturn
    \/ LogUnknown
    \/ LogUsageStep
    \/ Exit

Spec == Init /\ [][Next]_vars

(* ------------------------------------------------------------------- *)
(* Properties                                                           *)
(* ------------------------------------------------------------------- *)

RECURSIVE SplitLines(_)
SplitLines(text) ==
    IF ~Contains(text, "\n") THEN <<text>>
    ELSE <<SubSeq(text, 1, IndexOf(text, "\n") - 1)>> \o SplitLines(Drop(text, IndexOf(text, "\n")))

EndsWith(s, suffix) ==
    Len(s) >= Len(suffix) /\ SubSeq(s, Len(s) - Len(suffix) + 1, Len(s)) = suffix

(* the value of parsedArgs.help *)
ParsedHelp == AsValue(Lookup(parsedArgs.flags, sHelp))

(* what processFlags has reported and signalled so far, on the path that prints *)
(* usage; rendering the usage text does not end the call with an exception      *)
ReportedInOrder(stop) ==
    LET notice == IF hasUnknownFlags THEN 1 ELSE 0
        usage == formatUsage(original)
    IN /\ pc = "usage" =>
            /\ stop /\ hasUnknownFlags /\ Len(out) = 1 /\ exitCode = None
            /\ StartsWith(out[1], sUnknownArguments) /\ EndsWith(out[1], <<"\n">>)
       /\ pc = "exit" =>
            /\ stop /\ Len(out) = notice + 1 /\ out[Len(out)] = usage /\ exitCode = None
            /\ hasUnknownFlags => StartsWith(out[1], sUnknownArguments)
       /\ pc = "exited" =>
            /\ stop /\ Len(out) = notice + 1 /\ out[Len(out)] = usage
            /\ hasUnknownFlags =>
                 (StartsWith(out[1], sUnknownArguments) /\ EndsWith(out[1], <<"\n">>))
            /\ exitCode # None /\ exitCode[1] # 0
            /\ resultArgs = NoArgs
       /\ pc = "returned" =>
            /\ ~stop /\ out = <<>> /\ exitCode = None
            /\ resultArgs = parsedArgs
       /\ pc # "threwTypeError"

(* C1: in processFlags, once the tokenizer has returned, usage is reported     *)
(* (after the unknown-arguments notice, if any token was recorded) and then     *)
(* failure is signalled, with nothing returned, exactly when help is set or a   *)
(* token was recorded; otherwise nothing is reported and the tokenizer's result *)
(* is returned unchanged.  "help is set to true" is read as the code tests it,  *)
(* as any truthy value (true, a non-empty string, a non-zero number, an array). *)
C1_ReportThenExit ==
    op = "processFlags" =>
        ReportedInOrder(Truthy(ParsedHelp) \/ hasUnknownFlags)

(* C2: bare positional tokens are never unknown flags: every token the wrapper *)
(* records begins with "-", and a processFlags call whose arguments all begin  *)
(* with something else records nothing, reports nothing, does not exit, and    *)
(* returns exactly those tokens as its positional arguments.                   *)
C2_BareTokensAreNotUnknown ==
    /\ \A i \in 1..Len(unknownFlags) : StartsWith(unknownFlags[i], <<"-">>)
    /\ (op = "processFlags" /\ \A i \in 1..Len(args) : ~StartsWith(args[i], <<"-">>)) =>
          /\ unknownFlags = <<>> /\ out = <<>> /\ exitCode = None
          /\ pc \notin {"usage", "exit", "exited"}
          /\ pc = "returned" => resultArgs.positional = Map(JStr, args)

(* C3: the caller's configuration object is never mutated, and the augmented *)
(* configuration is a distinct copy.                                         *)
C3_CallerConfigurationUnchanged ==
    /\ heap[1] = original
    /\ op = "processFlags" /\ o # 0 => o # 1

(* C4: the flag infos hold exactly one record named help, the last one, and  *)
(* its line is the last line of the text formatUsage returns.                *)
C4_HelpIsLast ==
    (op = "formatUsage" /\ pc = "returned") =>
        LET infos == flagInfos
            lines == SplitLines(resultText)
        IN /\ Cardinality({i \in 1..Len(infos) : infos[i].flag = sHelp}) = 1
           /\ infos[Len(infos)].flag = sHelp
           /\ StartsWith(lines[Len(lines)], <<" ", " ">> \o FlagString(infos[Len(infos)]))

(* a description is declared when it is a non-empty text *)
Declares(descriptionOpt, flag) ==
    /\ descriptionOpt # None
    /\ OwnHas(descriptionOpt[1], flag)
    /\ Get(descriptionOpt[1], flag) # <<>>

Without(obj, k) == SelectSeq(obj, LAMBDA e : e.k # k)

(* C5: help-flag injection.  Without a help description the configuration     *)
(* derived has alias help = [h, ?] and description help = "Display usage       *)
(* information", every other alias, description and option as the caller gave  *)
(* them; with one, help's description and aliases are the caller's; injecting  *)
(* into the derived configuration changes nothing.                             *)
C5_HelpInjection ==
    (op \in {"formatUsage", "logUsage"} /\ pc \in {"returned", "threwTypeError"}) =>
        LET derived == heap[o]
        IN /\ ~Declares(original.description, sHelp) =>
                /\ derived.alias # None /\ derived.description # None
                /\ Lookup(derived.alias[1], sHelp) = Some(NameList(<<sH, sQuestion>>))
                /\ Lookup(derived.description[1], sHelp) = Some(sHelpDescription)
                /\ Without(derived.alias[1], sHelp) = Without(OrElse(original.alias, <<>>), sHelp)
                /\ Without(derived.description[1], sHelp)
                     = Without(OrElse(original.description, <<>>), sHelp)
                /\ \A f \in {"boolean", "string", "argument", "default", "preamble", "unknown"} :
                     derived[f] = original[f]
           /\ Declares(original.description, sHelp) =>
                /\ Lookup(derived.description[1], sHelp) = Lookup(original.description[1], sHelp)
                /\ Lookup(OrElse(derived.alias, <<>>), sHelp)
                     = Lookup(OrElse(original.alias, <<>>), sHelp)
                /\ derived = original
           /\ addHelpFlagIfNeeded(derived) = derived
           /\ ReturnsSameObject(derived)

(* C5: formatUsage has derived its configuration from one that gives help an *)
(* alias but no description                                                   *)
C5_Witness ==
    /\ op = "formatUsage" /\ pc = "returned"
    /\ ~Declares(original.description, sHelp)
    /\ original.alias # None /\ OwnHas(original.alias[1], sHelp)
    /\ original.description # None /\ original.default # None

(* C6: a flag of the boolean list has no argument placeholder, in its record *)
(* and in its rendered flag-string.                                          *)
C6_BooleanFlagsHaveNoPlaceholder ==
    (op = "formatUsage" /\ pc = "returned") =>
        LET infos == flagInfos
            lines == SplitLines(resultText)
        IN \A i \in 1..Len(infos) :
              Contains(AsNameList(original.boolean), infos[i].flag) =>
                 /\ infos[i].argumentName = None
                 /\ ~Contains(lines[i + 1], "<")

(* C7: with a preamble the text is the preamble, one blank line, then the   *)
(* text for the same configuration without preamble; without one the text   *)
(* starts with Options:                                                     *)
C7_Preamble ==
    (op = "formatUsage" /\ pc = "returned") =>
        IF original.preamble # None
        THEN resultText = original.preamble[1] \o <<"\n", "\n">>
                            \o formatUsage([original EXCEPT !.preamble = None])
        ELSE StartsWith(resultText, <<"O", "p", "t", "i", "o", "n", "s", ":">>)

(* the default text the claim gives for a default value *)
FormattedDefault(value) ==
    CASE value.t = "string" -> <<"\"">> \o value.s \o <<"\"">>
      [] value.t = "number" -> NumberToString(value.n)
      [] value.t = "boolean" -> (IF value.b THEN sTrue ELSE sFalse)
      [] OTHER -> <<"o", "b", "j", "e", "c", "t">>

(* the description-string the claim gives for a flag *)
ExpectedDescriptionString(config, flag) ==
    LET described == Declares(config.description, flag)
        default == OrElse(OwnLookup(OrElse(config.default, <<>>), flag), JUndefined)
        hasDefault == default.t # "undefined"
    IN IF described /\ hasDefault
       THEN Get(config.description[1], flag)
              \o <<" ", "(", "d", "e", "f", "a", "u", "l", "t", ":", " ">>
              \o FormattedDefault(default) \o <<")">>
       ELSE IF hasDefault
            THEN <<"D", "e", "f", "a", "u", "l", "t", ":", " ">> \o FormattedDefault(default)
            ELSE IF described THEN Get(config.description[1], flag) ELSE <<>>

(* C8: the line of every flag ends, after the padded flag-string and two     *)
(* spaces, with its description-string: "<description> (default: <d>)",       *)
(* "Default: <d>", the description alone, or nothing, where <d> is the        *)
(* default in double quotes (string), as a decimal literal (number), true or  *)
(* false (boolean) or the type's name (anything else), and a description is a *)
(* non-empty text.                                                            *)
C8_DescriptionStrings ==
    (op = "formatUsage" /\ pc = "returned") =>
        LET lines == SplitLines(resultText)
            width == FlagStringMaxLength(FlagStrings(flagInfos))
        IN /\ Len(lines) > Len(flagInfos)
           /\ \A i \in 1..Len(flagInfos) :
                LET expected == ExpectedDescriptionString(heap[o], flagInfos[i].flag)
                IN /\ Len(lines[i + 1]) = 2 + width + 2 + Len(expected)
                   /\ EndsWith(lines[i + 1], <<" ", " ">> \o expected)

(* C9: one call of the wrapper records the token once, calls the caller's own *)
(* callback once if there is one (never otherwise) with the same arguments,   *)
(* returns what it returned (undefined without one), and never calls itself.  *)
C9_WrapperForwardsOnce ==
    /\ depth <= 1
    /\ pc # "threw"
    /\ (pc = "unknownReturn" /\ inv.wrapper) =>
          /\ inv.recorded = 1
          /\ unknownFlags[Len(unknownFlags)] = plan.arg
          /\ IF original.unknown = "none"
             THEN inv.forwarded = 0 /\ ret = JUndefined
             ELSE /\ inv.forwarded = 1
                  /\ cbCalls[Len(cbCalls)] = [arg |-> plan.arg, key |-> plan.key, val |-> plan.val]
                  /\ ret = (IF original.unknown = "returnsFalse" THEN JBool(FALSE) ELSE JUndefined)

(* the type the claim gives for a flag *)
ExpectedType(config, flag) ==
    IF Contains(AsNameList(config.boolean), flag) THEN Some("boolean")
    ELSE IF Contains(AsNameList(config.string), flag) THEN Some("string")
    ELSE IF OwnHas(OrElse(config.default, <<>>), flag)
         THEN Some(TypeOf(Get(config.default[1], flag)))
         ELSE None

(* C10: the type of every flag record follows the precedence boolean list,  *)
(* then string list, then the runtime type of the default, then unset.      *)
C10_TypePrecedence ==
    (op = "formatUsage" /\ pc = "returned") =>
        \A i \in 1..Len(flagInfos) :
            flagInfos[i].type = ExpectedType(original, flagInfos[i].flag)

(* the configuration convertToFlagInfos was called with *)
ConvertedConfiguration ==
    IF op = "processFlags" THEN addHelpFlagIfNeeded(heap[o]) ELSE heap[o]

(* convertToFlagInfos has been called and its records are in flagInfos *)
Converted ==
    \/ op \in {"formatUsage", "logUsage"} /\ pc \in {"returned", "threwTypeError"}
    \/ op = "processFlags" /\ pc \in {"exit", "exited", "threwTypeError"}

(* every mention of a flag name, in the order description keys, boolean list, *)
(* string list, argument keys, default keys                                    *)
Mentions(config) ==
    Keys(OrElse(config.description, <<>>)) \o AsNameList(config.boolean)
        \o AsNameList(config.string) \o Keys(OrElse(config.argument, <<>>))
        \o Keys(OrElse(config.default, <<>>))

(* every name listed as an alias of some flag in the alias map *)
AliasNames(config) ==
    LET alias == OrElse(config.alias, <<>>)
    IN UNION {IF alias[i].v.t = "array"
              THEN {alias[i].v.a[j] : j \in 1..Len(alias[i].v.a)}
              ELSE {alias[i].v.s} : i \in 1..Len(alias)}

FirstMention(mentions, name) ==
    CHOOSE i \in 1..Len(mentions) :
        mentions[i] = name /\ \A j \in 1..(i - 1) : mentions[j] # name

(* C11: the names of the flag records are exactly the names mentioned in the  *)
(* description keys, the boolean list, the string list, the argument keys or  *)
(* the default keys, plus help, minus every name listed as an alias in the    *)
(* alias map; each name occurs once; the names other than help are in the     *)
(* order of their first mention; and no record's name is in any record's      *)
(* alias list.                                                                *)
C11_FlagNames ==
    Converted =>
        LET config == ConvertedConfiguration
            mentions == Mentions(config)
            n == Len(flagInfos)
        IN /\ {flagInfos[i].flag : i \in 1..n}
                = ({mentions[i] : i \in 1..Len(mentions)} \cup {sHelp}) \ AliasNames(config)
           /\ \A i, j \in 1..n : flagInfos[i].flag = flagInfos[j].flag => i = j
           /\ \A i, j \in 1..n :
                (i < j /\ flagInfos[i].flag # sHelp /\ flagInfos[j].flag # sHelp) =>
                    FirstMention(mentions, flagInfos[i].flag)
                        < FirstMention(mentions, flagInfos[j].flag)
           /\ \A i, j \in 1..n :
                Len(flagInfos[j].aliases) = 1 =>
                    ~Contains(flagInfos[j].aliases[1], flagInfos[i].flag)

====
